---- MODULE Spec2Model ----
(***************************************************************************)
(* The iOutlet education dashboards: my_dashboard1.py (the open variant,   *)
(* with the Trusts overview) and my_dashboard.py (the password-gated       *)
(* variant, src/unnamed/part_000).  Each is a Streamlit script: one render *)
(* pass runs the script top to bottom.  The model follows the data         *)
(* pipeline of a pass: gate, load_data, education subset, KPIs, monthly    *)
(* series, regional breakdown, top schools, sidebar filters.               *)
(*                                                                         *)
(* A text cell is a sequence of one-character strings, so that strip,      *)
(* lower and title are computed character by character.  A null cell       *)
(* (pandas NaN) is the value NaN below.  Item Total is an integer amount.  *)
(* An Order Date cell of the workbook is a record [d, m] (the text         *)
(* "d/m/2024"); after pd.to_datetime it is the month number, 0 for NaT.    *)
(***************************************************************************)
EXTENDS Integers, Sequences, FiniteSets, TLC

\* ------------------------------------------------------------------ bounds

\* Longest Sales sheet drawn from each family of rows (the fixed example
\* sheets of the specification are longer).
MaxRows == 2

\* The number of requests.get calls a run of the process is followed for.
MaxFetches == 2

\* ------------------------------------------------------------- text cells

NaN == <<"<NaN>">>

s_empty == <<>>
s_space == <<" ">>
s_no_match == <<"n", "o", " ", "m", "a", "t", "c", "h">>
s_No_Match == <<"N", "o", " ", "M", "a", "t", "c", "h">>
s_Oak == <<"O", "a", "k">>
s_Elm == <<"E", "l", "m">>
s_trust == <<"t", "r", "u", "s", "t">>
s_Trust == <<"T", "r", "u", "s", "t">>
s_trust_padded == <<" ", "t", "r", "u", "s", "t", " ">>
s_TRUST == <<"T", "R", "U", "S", "T">>
s_Not_Trust == <<"N", "o", "t", " ", "T", "r", "u", "s", "t">>
s_Trust_padded == <<" ", "T", "r", "u", "s", "t">>
s_london_padded == <<" ", "l", "o", "n", "d", "o", "n", " ">>
s_London == <<"L", "o", "n", "d", "o", "n">>
s_Leeds == <<"L", "e", "e", "d", "s">>
s_nan == <<"n", "a", "n">>
s_Academy == <<"A", "c", "a", "d", "e", "m", "y">>
s_Free == <<"F", "r", "e", "e">>
s_Primary == <<"P", "r", "i", "m", "a", "r", "y">>
s_Secondary == <<"S", "e", "c", "o", "n", "d", "a", "r", "y">>
s_All == <<"A", "l", "l">>

UpperChars == <<"A", "B", "C", "D", "E", "F", "G", "H", "I", "J", "K", "L", "M",
                "N", "O", "P", "Q", "R", "S", "T", "U", "V", "W", "X", "Y", "Z">>
LowerChars == <<"a", "b", "c", "d", "e", "f", "g", "h", "i", "j", "k", "l", "m",
                "n", "o", "p", "q", "r", "s", "t", "u", "v", "w", "x", "y", "z">>

IsUpper(c) == \E i \in DOMAIN UpperChars : UpperChars[i] = c
IsLower(c) == \E i \in DOMAIN LowerChars : LowerChars[i] = c
IsCased(c) == IsUpper(c) \/ IsLower(c)

LowerChar(c) ==
    IF IsUpper(c)
    THEN LowerChars[CHOOSE i \in DOMAIN UpperChars : UpperChars[i] = c]
    ELSE c

UpperChar(c) ==
    IF IsLower(c)
    THEN UpperChars[CHOOSE i \in DOMAIN LowerChars : LowerChars[i] = c]
    ELSE c

\* Code point order of the characters used: space < "A".."Z" < "a".."z".
Ord(c) ==
    IF IsUpper(c) THEN 1 + (CHOOSE i \in DOMAIN UpperChars : UpperChars[i] = c)
    ELSE IF IsLower(c)
         THEN 1 + Len(UpperChars) + (CHOOSE i \in DOMAIN LowerChars : LowerChars[i] = c)
         ELSE 0

\* str.lower()
Lower(s) == [i \in DOMAIN s |-> LowerChar(s[i])]

\* str.title(): a cased character is upper-cased when the character before it
\* is not cased, lower-cased otherwise.
Title(s) ==
    [i \in DOMAIN s |->
        IF i > 1 /\ IsCased(s[i - 1]) THEN LowerChar(s[i]) ELSE UpperChar(s[i])]

RECURSIVE LStrip(_)
LStrip(s) == IF s # <<>> /\ Head(s) = " " THEN LStrip(Tail(s)) ELSE s

RECURSIVE RStrip(_)
RStrip(s) ==
    IF s # <<>> /\ s[Len(s)] = " " THEN RStrip(SubSeq(s, 1, Len(s) - 1)) ELSE s

\* str.strip()
Strip(s) == RStrip(LStrip(s))

\* Series.astype(str) on one cell: a null becomes the text "nan".
AsStr(v) == IF v = NaN THEN s_nan ELSE v

\* Series.str.<f>() on one cell: a null stays null.
StrLowerCell(v) == IF v = NaN THEN NaN ELSE Lower(v)
StrStripCell(v) == IF v = NaN THEN NaN ELSE Strip(v)

\* Python's str.__lt__: lexicographic by code point.
RECURSIVE StrLess(_, _)
StrLess(a, b) ==
    IF b = <<>> THEN FALSE
    ELSE IF a = <<>> THEN TRUE
    ELSE IF Ord(Head(a)) # Ord(Head(b)) THEN Ord(Head(a)) < Ord(Head(b))
    ELSE StrLess(Tail(a), Tail(b))

\* ------------------------------------------------------------ the workbook

PASSWORD == "theioutlet@1"

Gated == "my_dashboard"      \* src/unnamed/part_000
Open == "my_dashboard1"      \* src/my_dashboard1.py
Variants == {Gated, Open}

\* An Order Date cell: the text "d/m/2024"; NotADate is a blank cell or a text
\* that is no date at all.
NotADate == [d |-> 0, m |-> 0]
DaysIn == <<31, 29, 31, 30, 31, 30, 31, 31, 30, 31, 30, 31>>
NaT == 0

\* One row of the Sales sheet.
SalesRow(sm, it, oid, od, rg, tm, st, ty) ==
    [SchoolMatch |-> sm, ItemTotal |-> it, OrderID |-> oid, OrderDate |-> od,
     Region |-> rg, TrustMatch |-> tm, SchoolType |-> st, Type |-> ty]

Jan15 == [d |-> 15, m |-> 1]
Mar20 == [d |-> 20, m |-> 3]
Feb31 == [d |-> 31, m |-> 2]

\* Families of rows.  Every sheet of a family varies the columns one part of
\* the pipeline reads and keeps the others fixed.
SegRows ==
    {SalesRow(sm, it, 1, Jan15, s_London, s_Not_Trust, s_Academy, s_Primary) :
        sm \in {NaN, s_space, s_No_Match, s_Oak, s_Elm}, it \in {-25, 100}}

OrderRows ==
    {SalesRow(sm, 100, oid, Jan15, s_London, s_Not_Trust, s_Academy, s_Primary) :
        sm \in {s_Oak, s_empty}, oid \in {1, 2}}

TrustRows ==
    {SalesRow(sm, 100, 1, Jan15, s_London, tm, s_Academy, s_Primary) :
        sm \in {s_Oak, s_empty},
        tm \in {NaN, s_Trust, s_trust_padded, s_Not_Trust}}

RegionRows ==
    {SalesRow(s_Oak, it, 1, Jan15, rg, s_Not_Trust, s_Academy, s_Primary) :
        it \in {50, 100}, rg \in {NaN, s_london_padded, s_London, s_Leeds}}
    \cup
    {SalesRow(s_no_match, 100, 1, Jan15, rg, s_Not_Trust, s_Academy, s_Primary) :
        rg \in {NaN, s_london_padded, s_London, s_Leeds}}

\* Region, Trust Match and School Type vary freely; Type is Primary exactly
\* when the other three agree in parity, so no column determines another.
FilterType(rg, tm, st) ==
    IF ((rg = s_London) <=> (tm = s_Trust)) <=> (st = s_Academy)
    THEN s_Primary ELSE s_Secondary

FilterRows ==
    {SalesRow(s_Oak, 100, 1, Jan15, rg, tm, st, FilterType(rg, tm, st)) :
        rg \in {s_London, s_Leeds}, tm \in {s_Trust, s_Trust_padded},
        st \in {s_Academy, NaN}}

DateRows ==
    {SalesRow(s_Oak, it, 1, od, s_London, s_Not_Trust, s_Academy, s_Primary) :
        it \in {50, 100}, od \in {Jan15, Mar20, NotADate}}
    \cup
    {SalesRow(sm, 100, 1, od, s_London, s_Not_Trust, s_Academy, s_Primary) :
        sm \in {s_no_match, s_empty}, od \in {Jan15, Mar20, NotADate}}

SheetsOf(rows) == UNION {[1..n -> rows] : n \in 0..MaxRows}

\* The example sheets of the specification's testable properties.
ExampleSegment ==
    << SalesRow(s_Oak, 100, 1, Jan15, s_london_padded, s_Not_Trust, s_Academy, s_Primary),
       SalesRow(s_empty, 50, 2, Jan15, s_London, s_Not_Trust, s_Academy, s_Primary),
       SalesRow(s_no_match, 25, 3, Jan15, s_Leeds, s_Not_Trust, s_Academy, s_Primary) >>

ExampleTrust ==
    << SalesRow(s_Oak, 100, 1, Jan15, s_London, s_Trust, s_Academy, s_Primary),
       SalesRow(s_Oak, 100, 2, Jan15, s_London, s_trust_padded, s_Academy, s_Primary),
       SalesRow(s_Elm, 100, 3, Jan15, s_London, s_TRUST, s_Academy, s_Primary),
       SalesRow(s_Elm, 100, 4, Jan15, s_London, s_empty, s_Academy, s_Primary),
       SalesRow(s_Elm, 100, 5, Jan15, s_London, s_Not_Trust, s_Academy, s_Primary) >>

ExampleDates ==
    << SalesRow(s_Oak, 100, 1, Feb31, s_London, s_Not_Trust, s_Academy, s_Primary),
       SalesRow(s_Elm, 50, 2, Mar20, s_London, s_Not_Trust, s_Academy, s_Primary) >>

\* Eleven schools of distinct revenue: one more than the ranking shows.
ExampleEleven ==
    [i \in 1..11 |->
        SalesRow(<<UpperChars[i]>>, 10 * i, i, Jan15, s_London, s_Not_Trust,
                 s_Academy, s_Primary)]

Workbooks ==
    SheetsOf(SegRows) \cup SheetsOf(OrderRows) \cup SheetsOf(TrustRows)
    \cup SheetsOf(RegionRows) \cup SheetsOf(FilterRows) \cup SheetsOf(DateRows)
    \cup {ExampleSegment, ExampleTrust, ExampleDates, ExampleEleven}

\* ------------------------------------------------------------ table helpers

\* pd.to_datetime(cell, errors='coerce', dayfirst=True): the month of a valid
\* day-first date, NaT for anything else.
ToDatetime(od) ==
    IF od.m \in DOMAIN DaysIn /\ od.d \in 1..DaysIn[od.m] THEN od.m ELSE NaT

\* A column added later is absent until then.
Absent == <<"<absent>">>

\* Series.sum() of Item Total.
RECURSIVE SumItemTotal(_)
SumItemTotal(df) ==
    IF df = <<>> THEN 0 ELSE Head(df).ItemTotal + SumItemTotal(Tail(df))

Range(s) == {s[i] : i \in DOMAIN s}

\* The distinct non-null values of a column: Series.dropna().unique().
Values(df, col) == {df[i][col] : i \in DOMAIN df} \ {NaN}

\* Series.nunique(): nulls are not counted.
NUnique(df, col) == Cardinality(Values(df, col))

\* df[df[col] == v]
WhereEq(df, col, v) == SelectSeq(df, LAMBDA r : r[col] = v)

\* sorted(): ascending by code point.
RECURSIVE SortAsc(_)
SortAsc(S) ==
    IF S = {} THEN <<>>
    ELSE LET least == CHOOSE x \in S : \A y \in S \ {x} : StrLess(x, y)
         IN  <<least>> \o SortAsc(S \ {least})

\* df.groupby(col)['Item Total'].sum(): one entry per non-null key, keys
\* ascending (groupby sorts its keys and drops null keys).
GroupBySum(df, col) ==
    LET keys == SortAsc(Values(df, col))
    IN  [k \in DOMAIN keys |->
            [key |-> keys[k], val |-> SumItemTotal(WhereEq(df, col, keys[k]))]]

\* df.groupby('School Match')['Order ID'].nunique()
GroupByOrders(df) ==
    LET keys == SortAsc(Values(df, "SchoolMatch"))
    IN  [k \in DOMAIN keys |->
            [key |-> keys[k],
             val |-> Cardinality({r.OrderID :
                                    r \in Range(WhereEq(df, "SchoolMatch", keys[k]))})]]

\* Series.sort_values(ascending=False): entries in non-increasing value.  The
\* default sort kind is quicksort, which is not stable, so entries of equal
\* value may come out in any order: the set of all results.
RECURSIVE SortValuesDesc(_)
SortValuesDesc(S) ==
    IF S = {} THEN {<<>>}
    ELSE UNION { { <<e>> \o rest : rest \in SortValuesDesc(S \ {e}) } :
                 e \in {x \in S : \A y \in S : y.val <= x.val} }

HeadN == 10

\* Series.head(10)
HeadRows(s) == SubSeq(s, 1, IF Len(s) < HeadN THEN Len(s) ELSE HeadN)

\* df.resample('MS', on='Order Date')['Item Total'].sum(): one bucket per
\* month from the earliest to the latest dated row, rows without a date in
\* none of them.
\* Mutant: undated rows kept for bucketing.
DatedKeepsNaT(df) == df

Dated(df) == SelectSeq(df, LAMBDA r : r.OrderDate # NaT)

Resample(df) ==
    LET months == {r.OrderDate : r \in Range(Dated(df))}
        lo == CHOOSE a \in months : \A b \in months : a <= b
        hi == CHOOSE a \in months : \A b \in months : b <= a
    IN  IF months = {} THEN <<>>
        ELSE [k \in 1..(hi - lo + 1) |->
                [key |-> lo + k - 1,
                 val |-> SumItemTotal(WhereEq(df, "OrderDate", lo + k - 1))]]

\* -------------------------------------------------------------------- state

VARIABLES
    variant,                    \* which script runs
    remote,                     \* the Sales sheet of the workbook at file_url
    resource,                   \* what a GET of file_url meets: "ok" or a fault
    fetches,                    \* number of requests.get calls of the process
    cache,                      \* st.cache_data entry of load_data: <<>> or <<table>>
    password,                   \* st.text_input of the gated variant
    pc,                         \* position of the render pass in the script
    exception,                  \* the exception that ended the pass, or "none"
    emitted,                    \* the elements the pass has put on the page
    sales_df, edu_df,
    num_trust_purchases,        \* my_dashboard1.py
    total_trust_matched_sales,  \* my_dashboard.py
    total_revenue, edu_revenue, schools_reached, repeat_order_rate,
    monthly_sales, monthly_edu,
    orders_by_region,           \* regions / orders_by_region
    region_sales,               \* region_sales / region_sales_all
    top_schools,
    region_filter, school_type_filter, type_filter, trust_filter,
    filtered_df, filtered_sales_total, filtered_sales_count

cacheVars == <<variant, remote, resource, fetches, cache>>
frameVars == <<sales_df, edu_df>>
trustVars == <<num_trust_purchases, total_trust_matched_sales>>
kpiVars == <<total_revenue, edu_revenue, schools_reached, repeat_order_rate>>
chartVars == <<monthly_sales, monthly_edu, orders_by_region, region_sales,
               top_schools>>
filterVars == <<region_filter, school_type_filter, type_filter, trust_filter,
                filtered_df, filtered_sales_total, filtered_sales_count>>

vars == <<variant, remote, resource, fetches, cache, password, pc, exception,
          emitted, sales_df, edu_df,
          num_trust_purchases, total_trust_matched_sales,
          total_revenue, edu_revenue, schools_reached, repeat_order_rate,
          monthly_sales, monthly_edu, orders_by_region, region_sales, top_schools,
          region_filter, school_type_filter, type_filter, trust_filter,
          filtered_df, filtered_sales_total, filtered_sales_count>>

\* A ratio KPI: the exact fraction num/den, or the float nan.
Ratio(n, d) == [kind |-> "num", num |-> n, den |-> d]
FloatNaN == [kind |-> "nan", num |-> 0, den |-> 1]
Unset == [kind |-> "unset", num |-> 0, den |-> 1]

\* The first statement of the script that the model follows.
FirstStep(v) == IF v = Gated THEN "gate" ELSE "load"

\* The names of a fresh run of the script: nothing computed yet.
FreshPass ==
    /\ exception = "none"
    /\ emitted = {}
    /\ sales_df = <<>> /\ edu_df = <<>>
    /\ num_trust_purchases = 0 /\ total_trust_matched_sales = 0
    /\ total_revenue = 0 /\ edu_revenue = 0 /\ schools_reached = 0
    /\ repeat_order_rate = Unset
    /\ monthly_sales = <<>> /\ monthly_edu = <<>>
    /\ orders_by_region = {}
    /\ region_sales = <<>> /\ top_schools = <<>>
    /\ region_filter = s_All /\ school_type_filter = s_All
    /\ type_filter = s_All /\ trust_filter = s_All
    /\ filtered_df = <<>> /\ filtered_sales_total = 0 /\ filtered_sales_count = 0

\* What can be wrong with the resource at file_url: the host does not
\* answer, the answer is not a workbook (an error or sign-in page), the
\* workbook has no sheet named "Sales", the sheet has no Order Date column.
Faults == {"unreachable", "not_workbook", "no_sales_sheet", "no_order_date"}

Init ==
    /\ variant \in Variants
    /\ \/ resource = "ok" /\ remote \in Workbooks
       \/ resource \in Faults /\ remote = ExampleSegment
    /\ fetches = 0
    /\ cache = <<>>
    /\ password = ""
    /\ pc = FirstStep(variant)
    /\ FreshPass

\* An uncaught exception ends the pass.
Raise(e) == pc' = "failed" /\ exception' = e

\* st.<element>(...): the elements are added to the page.
Emit(S) == emitted' = emitted \cup S

\* --------------------------------------------------------------- password gate

\* Mutant: the script goes on after the warning.
GateNoStop ==
    /\ pc = "gate"
    /\ \E p \in {PASSWORD, ""} :
        /\ password' = p
        /\ pc' = "load"
        /\ Emit({"password_input", IF p # PASSWORD THEN "warning" ELSE "success"})
    /\ UNCHANGED <<cacheVars, exception, frameVars, trustVars, kpiVars,
                   chartVars, filterVars>>

\* my_dashboard.py 15-21: st.text_input, st.stop() on a wrong password.
Gate ==
    /\ pc = "gate"
    /\ \E p \in {PASSWORD, ""} :
        /\ password' = p
        /\ pc' = IF p # PASSWORD THEN "stopped" ELSE "load"
        /\ Emit({"password_input", IF p # PASSWORD THEN "warning" ELSE "success"})
    /\ UNCHANGED <<cacheVars, exception, frameVars, trustVars, kpiVars,
                   chartVars, filterVars>>

\* ------------------------------------------------------------------- load_data

\* The body of load_data: read the Sales sheet, parse Order Date.
ParseSales(sheet) ==
    [i \in DOMAIN sheet |->
        [idx |-> i - 1,
         SchoolMatch |-> sheet[i].SchoolMatch,
         ItemTotal |-> sheet[i].ItemTotal,
         OrderID |-> sheet[i].OrderID,
         OrderDate |-> ToDatetime(sheet[i].OrderDate),
         Region |-> sheet[i].Region,
         TrustMatch |-> sheet[i].TrustMatch,
         SchoolType |-> sheet[i].SchoolType,
         Type |-> sheet[i].Type,
         Region_clean |-> Absent]]

\* The exception the body of load_data ends with on a faulty resource:
\* requests.get raises ConnectionError; read_excel raises ValueError on
\* bytes that are no workbook and on a missing sheet; sales_df['Order Date']
\* raises KeyError. Neither script catches or converts any of them.
LoadError(fault) ==
    CASE fault = "unreachable" -> "ConnectionError"
      [] fault = "not_workbook" -> "ValueError"
      [] fault = "no_sales_sheet" -> "ValueError"
      [] fault = "no_order_date" -> "KeyError"

\* Mutant: the decorator never finds an entry.
CacheHitNever == FALSE

\* @st.cache_data: load_data has an entry (it has no arguments, so one key).
CacheHit == cache # <<>>

\* sales_df, ... = load_data() under @st.cache_data: the body runs when the
\* cache has no entry, and a body that raises leaves no entry; the caller
\* gets a copy of the cached value. The page title is on the page before
\* the call; my_dashboard1.py writes its Data Load Summary after it.
LoadData ==
    /\ pc = "load"
    /\ IF CacheHit
       THEN /\ sales_df' = cache[1]
            /\ pc' = "segment"
            /\ Emit({"title"} \cup IF variant = Open THEN {"load_summary"} ELSE {})
            /\ UNCHANGED <<cache, fetches, exception>>
       ELSE /\ fetches < MaxFetches
            /\ fetches' = fetches + 1
            /\ IF resource = "ok"
               THEN /\ cache' = <<ParseSales(remote)>>
                    /\ sales_df' = cache'[1]
                    /\ pc' = "segment"
                    /\ Emit({"title"} \cup
                            IF variant = Open THEN {"load_summary"} ELSE {})
                    /\ UNCHANGED exception
               ELSE /\ Raise(LoadError(resource))
                    /\ Emit({"title"})
                    /\ UNCHANGED <<cache, sales_df>>
    /\ UNCHANGED <<variant, remote, resource, password, edu_df, trustVars,
                   kpiVars, chartVars, filterVars>>

\* ---------------------------------------------------------- education subset

\* A column read from a sheet in which every cell is blank has dtype float64,
\* and Series.str raises AttributeError on it.
NoStrAccessor(df, col) == df # <<>> /\ \A i \in DOMAIN df : df[i][col] = NaN

\* my_dashboard1.py 81: sales_df['School Match'].str.lower() != "no match"
\* (a null compares unequal, so it passes the mask).
InEduOpen(r) == StrLowerCell(r.SchoolMatch) # s_no_match

\* my_dashboard.py 85: notna() & (astype(str).str.strip() != "")
InEduGated(r) == r.SchoolMatch # NaN /\ Strip(AsStr(r.SchoolMatch)) # s_empty

InEdu(v, r) == IF v = Gated THEN InEduGated(r) ELSE InEduOpen(r)

Segment ==
    /\ pc = "segment"
    /\ IF variant = Open /\ NoStrAccessor(sales_df, "SchoolMatch")
       THEN Raise("AttributeError") /\ UNCHANGED edu_df
       ELSE /\ edu_df' = SelectSeq(sales_df, LAMBDA r : InEdu(variant, r))
            /\ pc' = IF variant = Open THEN "trust_overview" ELSE "kpis"
            /\ UNCHANGED exception
    /\ UNCHANGED <<cacheVars, password, emitted, sales_df, trustVars, kpiVars,
                   chartVars, filterVars>>

\* ------------------------------------------------------------ trust overview

\* my_dashboard1.py 91-94
IsTrustOpen(r) == Lower(Strip(AsStr(r.TrustMatch))) = s_trust

\* my_dashboard.py 100: edu_df['Trust Match'].str.strip().str.lower() == 'trust'
IsTrustGated(r) == StrLowerCell(StrStripCell(r.TrustMatch)) = s_trust

TrustPurchases(df) == SelectSeq(df, IsTrustOpen)

TrustOverview ==
    /\ pc = "trust_overview"
    /\ num_trust_purchases' = Len(TrustPurchases(sales_df))
    /\ Emit({"trust_metrics", "top_buyers_table"})
    /\ pc' = "kpis"
    /\ UNCHANGED <<cacheVars, password, exception, frameVars,
                   total_trust_matched_sales, kpiVars, chartVars, filterVars>>

\* ------------------------------------------------------------------------ KPIs

\* Mutant: the total taken over the dated rows only.
TotalRevenueDatedOnly(sales) == SumItemTotal(Dated(sales))

TotalRevenue(sales) == SumItemTotal(sales)
EduRevenue(edu) == SumItemTotal(edu)
SchoolsReached(edu) == NUnique(edu, "SchoolMatch")

\* repeat_orders[repeat_orders > 1].count()
RepeatSchools(edu) ==
    Cardinality({k \in DOMAIN GroupByOrders(edu) : GroupByOrders(edu)[k].val > 1})

\* my_dashboard1.py 116: guarded by "if schools_reached else 0".
\* my_dashboard.py 95: unguarded; numpy's 0 / 0 is nan.
RepeatOrderRate(v, edu) ==
    IF SchoolsReached(edu) # 0
    THEN Ratio(RepeatSchools(edu) * 100, SchoolsReached(edu))
    ELSE IF v = Open THEN Ratio(0, 1) ELSE FloatNaN

TotalTrustMatchedSales(edu) == Len(SelectSeq(edu, IsTrustGated))

KPIs ==
    /\ pc = "kpis"
    /\ total_revenue' = TotalRevenue(sales_df)
    /\ edu_revenue' = EduRevenue(edu_df)
    /\ schools_reached' = SchoolsReached(edu_df)
    /\ repeat_order_rate' = RepeatOrderRate(variant, edu_df)
    /\ IF variant = Gated /\ NoStrAccessor(sales_df, "TrustMatch")
       THEN Raise("AttributeError") /\ UNCHANGED <<total_trust_matched_sales, emitted>>
       ELSE /\ total_trust_matched_sales' =
                  IF variant = Gated THEN TotalTrustMatchedSales(edu_df)
                  ELSE total_trust_matched_sales
            /\ Emit({"kpi_metrics"})
            /\ pc' = "monthly"
            /\ UNCHANGED exception
    /\ UNCHANGED <<cacheVars, password, frameVars, num_trust_purchases,
                   chartVars, filterVars>>

\* ------------------------------------------------------- monthly sales trends

\* resample() of a frame that has rows but no dated row: the bin edges are
\* taken from the minimum and maximum of the date column, both NaT here.
\* The script does not fix the outcome; the empty series and a ValueError
\* from the range of bins are both modelled.
NoDatedRow(df) == df # <<>> /\ Dated(df) = <<>>

Monthly ==
    /\ pc = "monthly"
    /\ \/ /\ monthly_sales' = Resample(sales_df)
          /\ monthly_edu' = Resample(edu_df)
          /\ Emit({"monthly_chart"})
          /\ pc' = IF variant = Open THEN "orders" ELSE "regional"
          /\ UNCHANGED exception
       \/ /\ NoDatedRow(sales_df) \/ NoDatedRow(edu_df)
          /\ Raise("ValueError")
          /\ UNCHANGED <<monthly_sales, monthly_edu, emitted>>
    /\ UNCHANGED <<cacheVars, password, frameVars, trustVars, kpiVars,
                   orders_by_region, region_sales, top_schools, filterVars>>

\* ------------------------------------------------- orders by type and region

\* Series.value_counts(): the number of rows of each non-null value. The
\* entries are kept as a set; the order of the bars is not followed.
ValueCounts(df, col) ==
    {[key |-> k, val |-> Len(WhereEq(df, col, k))] : k \in Values(df, col)}

\* my_dashboard1.py 145-160 (before the Region cleaning of line 167),
\* my_dashboard.py 175-213 (edu_df has no cleaned Region column).
OrdersByRegion ==
    /\ pc = "orders"
    /\ orders_by_region' = ValueCounts(edu_df, "Region")
    /\ Emit({"school_type_chart", "orders_by_region_chart"})
    /\ pc' = IF variant = Open THEN "regional" ELSE "top_schools"
    /\ UNCHANGED <<cacheVars, password, exception, frameVars, trustVars, kpiVars,
                   monthly_sales, monthly_edu, region_sales, top_schools,
                   filterVars>>

\* ------------------------------------------------------ regional breakdown

\* my_dashboard1.py 167: edu_df['Region'] = ...astype(str).str.strip().str.title()
CleanRegionOpen(v) == Title(Strip(AsStr(v)))

\* my_dashboard.py 147: sales_df['Region_clean'] = ...astype(str).str.strip()
CleanRegionGated(v) == Strip(AsStr(v))

\* my_dashboard1.py 168
ValidRegion(r) == r.Region # s_empty /\ Lower(r.Region) # s_nan

\* The frame and the column the regional revenue is grouped on.
RegionFrame(v, sales, edu) ==
    IF v = Gated THEN sales ELSE SelectSeq(edu, ValidRegion)

RegionKey(v) == IF v = Gated THEN "Region_clean" ELSE "Region"

Regional ==
    /\ pc = "regional"
    /\ sales_df' =
          IF variant = Gated
          THEN [i \in DOMAIN sales_df |->
                  [sales_df[i] EXCEPT !.Region_clean = CleanRegionGated(sales_df[i].Region)]]
          ELSE sales_df
    /\ edu_df' =
          IF variant = Open
          THEN [i \in DOMAIN edu_df |->
                  [edu_df[i] EXCEPT !.Region = CleanRegionOpen(edu_df[i].Region)]]
          ELSE edu_df
    /\ region_sales' \in
          SortValuesDesc(Range(GroupBySum(RegionFrame(variant, sales_df', edu_df'),
                                          RegionKey(variant))))
    /\ Emit({"regional_chart"})
    /\ pc' = IF variant = Gated THEN "orders" ELSE "top_schools"
    /\ UNCHANGED <<cacheVars, password, exception, trustVars, kpiVars,
                   monthly_sales, monthly_edu, orders_by_region, top_schools,
                   filterVars>>

\* ------------------------------------------------------------- top 10 schools

\* edu_df.groupby('School Match')['Item Total'].sum()
\*       .sort_values(ascending=False).head(10)
TopSchoolsOf(edu) ==
    {HeadRows(s) : s \in SortValuesDesc(Range(GroupBySum(edu, "SchoolMatch")))}

TopSchools ==
    /\ pc = "top_schools"
    /\ top_schools' \in TopSchoolsOf(edu_df)
    /\ Emit({"top_schools_table"})
    /\ pc' = IF variant = Gated THEN "region_filter" ELSE "filters"
    /\ UNCHANGED <<cacheVars, password, exception, frameVars, trustVars, kpiVars,
                   monthly_sales, monthly_edu, orders_by_region, region_sales,
                   filterVars>>

\* --------------------------------------------------------------------- filters

\* ['All'] + sorted(df[col].dropna().unique()), as the set of choices.
Options(df, col) == {s_All} \cup Values(df, col)

\* my_dashboard.py 413-420: dropna, astype(str), strip, blanks removed.
TrustOptions(df) ==
    {s_All} \cup ({Strip(AsStr(v)) : v \in Values(df, "TrustMatch")} \ {s_empty})

\* Mutant: the filter applied without the "All" guard.
ApplyFilterUnguarded(df, col, choice) == WhereEq(df, col, choice)

\* if choice != "All": df = df[df[col] == choice]
ApplyFilter(df, col, choice) ==
    IF choice # s_All THEN WhereEq(df, col, choice) ELSE df

\* my_dashboard.py 386-394
SelectRegion ==
    /\ pc = "region_filter"
    /\ \E c \in Options(sales_df, "Region") :
        /\ region_filter' = c
        /\ filtered_df' = ApplyFilter(sales_df, "Region", c)
    /\ Emit({"region_select"})
    /\ pc' = "school_type_filter"
    /\ UNCHANGED <<cacheVars, password, exception, frameVars, trustVars, kpiVars,
                   chartVars, school_type_filter, type_filter, trust_filter,
                   filtered_sales_total, filtered_sales_count>>

\* my_dashboard.py 397-402
SelectSchoolType ==
    /\ pc = "school_type_filter"
    /\ \E c \in Options(filtered_df, "SchoolType") :
        /\ school_type_filter' = c
        /\ filtered_df' = ApplyFilter(filtered_df, "SchoolType", c)
    /\ Emit({"school_type_select"})
    /\ pc' = "type_filter"
    /\ UNCHANGED <<cacheVars, password, exception, frameVars, trustVars, kpiVars,
                   chartVars, region_filter, type_filter, trust_filter,
                   filtered_sales_total, filtered_sales_count>>

\* my_dashboard.py 405-410
SelectType ==
    /\ pc = "type_filter"
    /\ \E c \in Options(filtered_df, "Type") :
        /\ type_filter' = c
        /\ filtered_df' = ApplyFilter(filtered_df, "Type", c)
    /\ Emit({"type_select"})
    /\ pc' = "trust_filter"
    /\ UNCHANGED <<cacheVars, password, exception, frameVars, trustVars, kpiVars,
                   chartVars, region_filter, school_type_filter, trust_filter,
                   filtered_sales_total, filtered_sales_count>>

\* my_dashboard.py 413-428
SelectTrust ==
    /\ pc = "trust_filter"
    /\ \E c \in TrustOptions(filtered_df) :
        /\ trust_filter' = c
        /\ filtered_df' = ApplyFilter(filtered_df, "TrustMatch", c)
    /\ Emit({"trust_select"})
    /\ pc' = "sidebar"
    /\ UNCHANGED <<cacheVars, password, exception, frameVars, trustVars, kpiVars,
                   chartVars, region_filter, school_type_filter, type_filter,
                   filtered_sales_total, filtered_sales_count>>

\* my_dashboard1.py 331-338: both select boxes are built from edu_df, then
\* the copy of edu_df is filtered by each.
OpenFilters ==
    /\ pc = "filters"
    /\ \E c \in Options(edu_df, "Region"), d \in Options(edu_df, "SchoolType") :
        /\ region_filter' = c
        /\ school_type_filter' = d
        /\ filtered_df' =
              ApplyFilter(ApplyFilter(edu_df, "Region", c), "SchoolType", d)
    /\ Emit({"region_select", "school_type_select"})
    /\ pc' = "sidebar"
    /\ UNCHANGED <<cacheVars, password, exception, frameVars, trustVars, kpiVars,
                   chartVars, type_filter, trust_filter,
                   filtered_sales_total, filtered_sales_count>>

\* Mutant: the metric summed over the unfiltered table.
FilteredSalesTotalUnfiltered(df) == SumItemTotal(sales_df)

\* my_dashboard.py 432-433, my_dashboard1.py 340
FilteredSalesTotal(df) == SumItemTotal(df)

Sidebar ==
    /\ pc = "sidebar"
    /\ filtered_sales_total' = FilteredSalesTotal(filtered_df)
    /\ filtered_sales_count' = IF variant = Gated THEN Len(filtered_df) ELSE 0
    /\ Emit({"filtered_metrics"} \cup
            IF variant = Open THEN {"download_button"} ELSE {})
    /\ pc' = "done"
    /\ UNCHANGED <<cacheVars, password, exception, frameVars, trustVars, kpiVars,
                   chartVars, region_filter, school_type_filter, type_filter,
                   trust_filter, filtered_df>>

\* ----------------------------------------------------------------- next pass

\* Streamlit runs the script again on the next interaction: the names of the
\* script start afresh, the cache stays.
Rerun ==
    /\ pc \in {"done", "stopped", "failed"}
    /\ pc' = FirstStep(variant)
    /\ exception' = "none"
    /\ emitted' = {}
    /\ sales_df' = <<>> /\ edu_df' = <<>>
    /\ num_trust_purchases' = 0 /\ total_trust_matched_sales' = 0
    /\ total_revenue' = 0 /\ edu_revenue' = 0 /\ schools_reached' = 0
    /\ repeat_order_rate' = Unset
    /\ monthly_sales' = <<>> /\ monthly_edu' = <<>>
    /\ orders_by_region' = {}
    /\ region_sales' = <<>> /\ top_schools' = <<>>
    /\ region_filter' = s_All /\ school_type_filter' = s_All
    /\ type_filter' = s_All /\ trust_filter' = s_All
    /\ filtered_df' = <<>> /\ filtered_sales_total' = 0 /\ filtered_sales_count' = 0
    /\ UNCHANGED <<cacheVars, password>>

\* ------------------------------------------------------- the remote workbook

\* The workbooks whose replacement is followed.
Replaced == SheetsOf(SegRows) \cup {ExampleSegment, ExampleTrust, ExampleEleven}

\* The owner of the workbook replaces the file at file_url; the script can
\* notice it only in a later load, so the step is taken between two passes.
RemoteEdit ==
    /\ pc \in {"done", "stopped", "failed"}
    /\ resource # "ok" \/ remote \in Replaced
    /\ resource' = "ok"
    /\ remote' = ExampleDates
    /\ UNCHANGED <<variant, fetches, cache, password, pc, exception, emitted,
                   frameVars, trustVars, kpiVars, chartVars, filterVars>>

Next ==
    \/ Gate
    \/ LoadData
    \/ Segment
    \/ TrustOverview
    \/ KPIs
    \/ Monthly
    \/ OrdersByRegion
    \/ Regional
    \/ TopSchools
    \/ SelectRegion
    \/ SelectSchoolType
    \/ SelectType
    \/ SelectTrust
    \/ OpenFilters
    \/ Sidebar
    \/ Rerun
    \/ RemoteEdit

Spec == Init /\ [][Next]_vars

\* ------------------------------------------------------------------ properties

\* Positions of a pass at which a step has run.
SegmentDone ==
    pc \in {"trust_overview", "kpis", "monthly", "orders", "regional", "top_schools",
            "region_filter", "school_type_filter", "type_filter", "trust_filter",
            "filters", "sidebar", "done"}
KPIsDone ==
    pc \in {"monthly", "orders", "regional", "top_schools", "region_filter",
            "school_type_filter", "type_filter", "trust_filter", "filters",
            "sidebar", "done"}
MonthlyDone ==
    pc \in {"orders", "regional", "top_schools", "region_filter", "school_type_filter",
            "type_filter", "trust_filter", "filters", "sidebar", "done"}
RegionalDone ==
    \/ pc \in {"top_schools", "region_filter", "school_type_filter", "type_filter",
               "trust_filter", "filters", "sidebar", "done"}
    \/ pc = "orders" /\ variant = Gated
TopSchoolsDone ==
    pc \in {"region_filter", "school_type_filter", "type_filter", "trust_filter",
            "filters", "sidebar", "done"}

\* The row of sales_df with pandas index n is a row of edu_df.
InEduDf(n) == \E j \in DOMAIN edu_df : edu_df[j].idx = n

\* The unified membership rule: School Match, trimmed, is non-empty, not null
\* and not "no match" in any case.
UnifiedRule(r) ==
    /\ r.SchoolMatch # NaN
    /\ Strip(r.SchoolMatch) # s_empty
    /\ Lower(Strip(r.SchoolMatch)) # s_no_match

\* C1: in both variants a row of the Sales table is in edu_df if and only if
\* its School Match, trimmed, is non-empty, not null and not equal to
\* "no match" ignoring case.
C1_EduMembership ==
    SegmentDone =>
        \A i \in DOMAIN sales_df : InEduDf(sales_df[i].idx) <=> UnifiedRule(sales_df[i])

\* C2: in both variants, when the education subset has no distinct School
\* Match value the repeat-order rate is exactly 0, not nan.
C2_ZeroSchoolsZeroRate ==
    (KPIsDone /\ schools_reached = 0) =>
        (repeat_order_rate.kind = "num" /\ repeat_order_rate.num = 0)

\* C3 as stated: for every Sales table, negative Item Totals included, the
\* education revenue is at most the total revenue.
C3_EduRevenueAtMostTotal ==
    KPIsDone => edu_revenue <= total_revenue

NoNegativeItemTotal == \A i \in DOMAIN sales_df : sales_df[i].ItemTotal >= 0

\* C3 amended: for every Sales table whose Item Total values are all
\* non-negative, the education revenue is at most the total revenue.
C3_EduRevenueAtMostTotalNonNegative ==
    (KPIsDone /\ NoNegativeItemTotal) => edu_revenue <= total_revenue

\* A table without negative amounts whose education subset is a proper,
\* non-empty part of it.
C3_Witness ==
    /\ KPIsDone /\ NoNegativeItemTotal
    /\ edu_df # <<>> /\ Len(edu_df) < Len(sales_df)
    /\ 0 < edu_revenue /\ edu_revenue < total_revenue

\* The trust-matched count each variant displays.
TrustMatchedCount ==
    IF variant = Gated THEN total_trust_matched_sales ELSE num_trust_purchases

TrimmedLowerIsTrust(r) ==
    r.TrustMatch # NaN /\ Lower(Strip(r.TrustMatch)) = s_trust

\* C4: in both variants the trust-matched count is the number of rows of the
\* full Sales table whose Trust Match, trimmed and lower-cased, is "trust";
\* for the example values it is 3.
C4_TrustCountOverAllSales ==
    KPIsDone =>
        /\ TrustMatchedCount = Len(SelectSeq(sales_df, TrimmedLowerIsTrust))
        /\ remote = ExampleTrust => TrustMatchedCount = 3

\* The position in edu_df of the first row of a school.
FirstSeen(key) ==
    CHOOSE i \in DOMAIN edu_df :
        /\ edu_df[i].SchoolMatch = key
        /\ \A j \in DOMAIN edu_df : edu_df[j].SchoolMatch = key => i <= j

\* C5: the top-schools ranking has at most 10 entries, they are the largest
\* group sums in descending order, and schools of equal revenue appear in
\* first-seen order.
C5_TopSchoolsFirstSeenTies ==
    TopSchoolsDone =>
        /\ Len(top_schools) <= HeadN
        /\ Range(top_schools) \subseteq Range(GroupBySum(edu_df, "SchoolMatch"))
        /\ \A e \in Range(GroupBySum(edu_df, "SchoolMatch")) \ Range(top_schools) :
               /\ Len(top_schools) = HeadN
               /\ \A f \in Range(top_schools) : e.val <= f.val
        /\ \A i, j \in DOMAIN top_schools :
               i < j =>
                   /\ top_schools[j].val <= top_schools[i].val
                   /\ top_schools[j].val = top_schools[i].val =>
                          FirstSeen(top_schools[i].key) < FirstSeen(top_schools[j].key)

\* The table the sidebar filters start from.
Base == IF variant = Gated THEN sales_df ELSE edu_df

\* The equality constraints of the sidebar, in the order the script applies them.
Constraints ==
    << [col |-> "Region", choice |-> region_filter],
       [col |-> "SchoolType", choice |-> school_type_filter],
       [col |-> "Type", choice |-> type_filter],
       [col |-> "TrustMatch", choice |-> trust_filter] >>

\* The constraint is set to a value that no row of the base table has.
AbsentFromBase(c) ==
    c.choice # s_All /\ \A i \in DOMAIN Base : Base[i][c.col] # c.choice

\* C6: when a constraint is set to a value that occurs in no row of the base
\* table, the pass finishes with a filtered table of 0 rows, a filtered
\* revenue of 0 and a filtered row count of 0.
C6_AbsentValueYieldsEmpty ==
    (pc \in {"sidebar", "done"} /\ \E k \in DOMAIN Constraints : AbsentFromBase(Constraints[k]))
        => /\ exception = "none"
           /\ filtered_df = <<>>
           /\ pc = "done" => (filtered_sales_total = 0 /\ filtered_sales_count = 0)

\* A finished pass of the gated variant whose Trust Match choice, built from
\* the trimmed column, is the value of no row.
C6_Witness ==
    /\ pc = "done" /\ variant = Gated /\ sales_df # <<>>
    /\ AbsentFromBase(Constraints[4])
    /\ filtered_df = <<>> /\ filtered_sales_count = 0

\* The row satisfies every constraint that is not "All".
Satisfies(r) ==
    \A k \in DOMAIN Constraints :
        Constraints[k].choice # s_All => r[Constraints[k].col] = Constraints[k].choice

RECURSIVE ApplyInOrder(_, _)
ApplyInOrder(df, cs) ==
    IF cs = <<>> THEN df
    ELSE ApplyInOrder(ApplyFilter(df, Head(cs).col, Head(cs).choice), Tail(cs))

\* Every order in which the four constraints can be applied.
Orders == Permutations({"Region", "SchoolType", "Type", "TrustMatch"})

\* C7: the filtered table is exactly the base rows that satisfy all non-"All"
\* constraints at once; applying the constraints in any other order gives the
\* same table, revenue and row count; constraints set to "All" remove no row.
C7_FilterIsConjunction ==
    pc = "done" =>
        /\ filtered_df = SelectSeq(Base, Satisfies)
        /\ \A p \in Orders :
            LET f == ApplyInOrder(Base,
                        [i \in DOMAIN Constraints |->
                            CHOOSE c \in Range(Constraints) : c.col = p[Constraints[i].col]])
            IN  /\ f = filtered_df
                /\ SumItemTotal(f) = filtered_sales_total
                /\ variant = Gated => Len(f) = filtered_sales_count
        /\ (\A k \in DOMAIN Constraints : Constraints[k].choice = s_All)
               => filtered_df = Base

\* A finished pass with two constraints set that keep some rows and drop others.
C7_Witness ==
    /\ pc = "done" /\ variant = Gated
    /\ region_filter # s_All /\ trust_filter # s_All
    /\ filtered_df # <<>> /\ Len(filtered_df) < Len(sales_df)

\* The trimmed, title-cased Region of a row.
CleanedRegion(r) == Title(Strip(AsStr(r.Region)))

ExpectedRegionSales ==
    {[key |-> k,
      val |-> SumItemTotal(SelectSeq(sales_df, LAMBDA r : CleanedRegion(r) = k))] :
        k \in {CleanedRegion(r) : r \in Range(sales_df)}}

\* C8: in both variants the regional breakdown is over all sales rows, one
\* bucket per trimmed, title-cased Region (blank and "nan" included), in
\* descending revenue; the example rows give London=150, Leeds=25.
C8_RegionalOverAllSalesTitleCased ==
    RegionalDone =>
        /\ Range(region_sales) = ExpectedRegionSales
        /\ Len(region_sales) = Cardinality(ExpectedRegionSales)
        /\ \A i, j \in DOMAIN region_sales :
               i < j => region_sales[j].val <= region_sales[i].val
        /\ remote = ExampleSegment =>
               region_sales = << [key |-> s_London, val |-> 150],
                                 [key |-> s_Leeds, val |-> 25] >>

RECURSIVE SumVals(_)
SumVals(s) == IF s = <<>> THEN 0 ELSE Head(s).val + SumVals(Tail(s))

NullDated(df) == SelectSeq(df, LAMBDA r : r.OrderDate = NaT)

\* The cell is no valid day-first date.
Unparseable(od) == ~(od.m \in 1..12 /\ od.d \in 1..DaysIn[od.m])

\* Each bucket of the series holds the rows of its month, and no bucket is
\* the null date's.
BucketsOf(series, df) ==
    \A b \in Range(series) :
        /\ b.key # NaT
        /\ b.val = SumItemTotal(SelectSeq(df, LAMBDA r : r.OrderDate = b.key))

\* C9: a row with an unparseable Order Date is loaded with a null date and no
\* exception, is in no monthly bucket, and still counts in the totals; so the
\* monthly buckets sum to the total minus the Item Total of null-dated rows.
C9_NullDatesOutOfBuckets ==
    /\ [][(pc = "load" /\ cache = <<>> /\ resource = "ok") =>
            /\ exception' = "none"
            /\ \A i \in DOMAIN remote :
                   Unparseable(remote[i].OrderDate) => sales_df'[i].OrderDate = NaT]_vars
    /\ [](MonthlyDone =>
            /\ BucketsOf(monthly_sales, sales_df)
            /\ BucketsOf(monthly_edu, edu_df)
            /\ total_revenue = SumItemTotal(Dated(sales_df)) + SumItemTotal(NullDated(sales_df))
            /\ edu_revenue = SumItemTotal(Dated(edu_df)) + SumItemTotal(NullDated(edu_df))
            /\ SumVals(monthly_sales) = total_revenue - SumItemTotal(NullDated(sales_df))
            /\ SumVals(monthly_edu) = edu_revenue - SumItemTotal(NullDated(edu_df)))

\* Both series have buckets, and a null-dated row is in the education subset.
C9_Witness ==
    /\ MonthlyDone
    /\ monthly_sales # <<>> /\ monthly_edu # <<>>
    /\ NullDated(edu_df) # <<>>
    /\ SumVals(monthly_edu) < edu_revenue

Keys(series) == [i \in DOMAIN series |-> series[i].key]

\* C10: the all-sales and the education monthly series have the same
\* month-start buckets in the same order.
C10_SeriesAligned ==
    MonthlyDone => Keys(monthly_sales) = Keys(monthly_edu)

\* Positions of a pass at which load_data has returned its tables.
LoadDone == pc = "segment" \/ SegmentDone

\* C11: from the return of load_data to the end of the pass no step changes
\* a column or a cell of sales_df, and from the segmentation to the end of
\* the pass no step changes a cell of edu_df.
C11_TablesNeverChanged ==
    [][/\ (LoadDone /\ pc' # FirstStep(variant)) => sales_df' = sales_df
       /\ (SegmentDone /\ pc' # FirstStep(variant)) => edu_df' = edu_df]_vars

\* A School Match value that is a school: not blank after trimming and not
\* the sentinel "no match" in any case.
IsSchool(v) == Strip(v) # s_empty /\ Lower(Strip(v)) # s_no_match

\* C15: in both variants schools_reached is the number of distinct School
\* Match values of edu_df that are non-blank after trimming and are not the
\* sentinel "no match".
C15_SchoolsReachedNonBlank ==
    KPIsDone =>
        schools_reached =
            Cardinality({v \in Values(edu_df, "SchoolMatch") : IsSchool(v)})

\* C16: after each select box, a choice other than "All" leaves at least one
\* row in the table the choice was applied to.
C16_OfferedOptionMatchesARow ==
    /\ (pc = "school_type_filter" /\ region_filter # s_All) => filtered_df # <<>>
    /\ (pc = "type_filter" /\ school_type_filter # s_All) => filtered_df # <<>>
    /\ (pc = "trust_filter" /\ type_filter # s_All) => filtered_df # <<>>
    /\ (pc = "sidebar" /\ variant = Gated /\ trust_filter # s_All)
           => filtered_df # <<>>
    /\ (pc = "sidebar" /\ variant = Open
            /\ (region_filter # s_All \/ school_type_filter # s_All))
           => filtered_df # <<>>

\* The elements of the page that are KPIs, charts, tables or filters.
DashboardOutputs ==
    {"load_summary", "trust_metrics", "top_buyers_table", "kpi_metrics",
     "monthly_chart", "school_type_chart", "orders_by_region_chart",
     "regional_chart", "top_schools_table", "region_select",
     "school_type_select", "type_select", "trust_select", "filtered_metrics",
     "download_button"}

\* C17: in the gated variant a pass whose entered password differs from
\* PASSWORD stops at the gate with only the input and the warning on the
\* page; it calls no load_data, fetches nothing and leaves the cache alone;
\* a KPI, chart, table or filter is on the page only in a pass whose
\* password equals PASSWORD.
C17_WrongPasswordStopsAtGate ==
    /\ []((variant = Gated /\ pc # "gate" /\ password # PASSWORD) =>
            /\ pc = "stopped"
            /\ emitted = {"password_input", "warning"}
            /\ sales_df = <<>>)
    /\ []((variant = Gated /\ emitted \cap DashboardOutputs # {}) =>
            password = PASSWORD)
    /\ [][(variant = Gated /\ password' # PASSWORD) =>
            (cache' = cache /\ fetches' = fetches)]_vars

\* A pass stopped at the gate in a process whose cache an earlier pass filled.
C17_Witness ==
    /\ variant = Gated /\ pc = "stopped" /\ password # PASSWORD
    /\ cache # <<>> /\ fetches = 1
    /\ emitted = {"password_input", "warning"}

\* The error kind the loader is to end with on each fault.
ErrorKind(fault) ==
    IF fault \in {"unreachable", "not_workbook"} THEN "FetchError" ELSE "ParseError"

\* C14: a load from a faulty resource ends the pass with a FetchError
\* (transport error, non-workbook response) or a ParseError (missing sheet
\* or column), with no KPI, chart or table on the page and with a message
\* for the user on it.
C14_LoadFailureReported ==
    [][(pc = "load" /\ ~CacheHit /\ resource # "ok" /\ pc' # pc) =>
          /\ pc' = "failed"
          /\ exception' = ErrorKind(resource)
          /\ emitted' \cap DashboardOutputs = {}
          /\ "error_message" \in emitted']_vars

\* C12 as stated: over the passes of one process there is at most one fetch
\* of the workbook, and every pass works on the cached tables.
C12_FetchedAtMostOnce ==
    /\ fetches <= 1
    /\ pc = "segment" => sales_df = cache[1]

\* C12 amended: once a load_data call has succeeded the cache entry is never
\* overwritten or dropped and no later pass fetches; the entry is filled by
\* one fetch, from the workbook as it was then; every pass that loads gets
\* the cached tables, whatever the remote workbook has become. (A pass after
\* a failed load fetches again.)
C12_FetchedOnceAfterSuccess ==
    /\ [][CacheHit => (cache' = cache /\ fetches' = fetches)]_vars
    /\ [][(~CacheHit /\ cache' # <<>>) =>
            (fetches' = fetches + 1 /\ cache' = <<ParseSales(remote)>>)]_vars
    /\ [](pc = "segment" => sales_df = cache[1])

\* A pass has loaded from the cache after the remote workbook was replaced:
\* its tables are not those of the workbook now at file_url.
C12_Witness ==
    /\ pc = "segment" /\ resource = "ok" /\ fetches = 1
    /\ cache # <<>> /\ cache[1] # ParseSales(remote)
    /\ sales_df = cache[1]

\* Positions of a pass at which the orders-by-region counts exist.
OrdersDone ==
    \/ variant = Open /\ (pc = "regional" \/ RegionalDone)
    \/ variant = Gated /\ (pc = "top_schools" \/ TopSchoolsDone)

\* Every value is trimmed, and no two values differ only in case.
Normalized(S) ==
    \A k \in S : k = Strip(k) /\ \A l \in S : Lower(k) = Lower(l) => k = l

\* The rows the Trust Match choice keeps when the trimmed values are compared.
TrimmedTrustEq(r) == Strip(AsStr(r.TrustMatch)) = trust_filter

\* C13: the orders-by-region counts, the regional revenue breakdown and the
\* Region select box are over trimmed, case-normalized values, and the Trust
\* Match filter compares trimmed values.
C13_GroupingOnCleanedValues ==
    /\ OrdersDone => Normalized({e.key : e \in orders_by_region})
    /\ RegionalDone => Normalized({e.key : e \in Range(region_sales)})
    /\ (variant = Gated /\ pc = "region_filter")
           => Normalized(Options(sales_df, "Region") \ {s_All})
    /\ (variant = Open /\ pc = "filters")
           => Normalized(Options(edu_df, "Region") \ {s_All})
    /\ (variant = Gated /\ pc \in {"sidebar", "done"} /\ trust_filter # s_All)
           => filtered_df =
                  SelectSeq(ApplyInOrder(Base, SubSeq(Constraints, 1, 3)),
                            TrimmedTrustEq)

====
